---- MODULE Spec2Model ----
(***************************************************************************)
(* A model of the user/auth backend: the users collection, the password    *)
(* and token primitives, the user service, the auth dependency chain, the  *)
(* route handlers and the application's exception handlers.                *)
(*                                                                         *)
(* Conventions.  An Optional[X] value is a sequence of length at most one: *)
(* None is <<>> and a present value x is <<x>>.  The outcome of a call is  *)
(* a record [exc, status, detail, www, val]: exc = "" for a normal return  *)
(* (val holds the returned value as an Optional), otherwise exc names the  *)
(* Python exception raised; an HTTPException carries status, detail and    *)
(* whether it carries the WWW-Authenticate: Bearer header (www).  Time is  *)
(* counted in whole seconds, the resolution of a JWT exp claim.            *)
(***************************************************************************)
EXTENDS Integers, Sequences, FiniteSets, TLC

VARIABLES
    users,      \* the users collection: documents in natural (insertion) order
    nextId,     \* the next ObjectId the database generates
    now,        \* the clock, in seconds
    req,        \* the last HTTP request dispatched to a route handler, and when
    resp,       \* the response the application sent to it
    calls,      \* per caller: the service call in flight, or its outcome
    minted,     \* tokens minted by create_access_token, with their lifetime
    decoded,    \* the last decode_token call: token, instant and outcome
    db,         \* the process-wide DataBase object: client and database handle
    lifespan    \* the application's lifecycle, and the last get_database call

vars == <<users, nextId, now, req, resp, calls, minted, decoded, db, lifespan>>

---------------------------------------------------------------------------
\* Bounds of the model.

MaxDocs == 2        \* documents the collection may hold
MaxTime == 2        \* the clock runs from 0 to MaxTime
MaxTtl == 2         \* explicit token lifetimes range over -1..MaxTtl
MaxSkip == 1        \* skip ranges over 0..MaxSkip
MaxLimit == 2       \* limit ranges over 1..MaxLimit
NumSalts == 1       \* salts the hashing primitive may draw
NumProcs == 2       \* concurrent callers of the service
MaxConnects == 3    \* times the application may be started
MaxPage == 3        \* page ranges over 1..MaxPage
MaxInserts == 3     \* documents ever inserted by the service's callers

Usernames == {"alice", "bob"}
Emails == {"a@x.com", "b@x.com"}
Passwords == {"longenough1", "longenough2"}
Roles == {"user", "admin"}
Procs == 1..NumProcs

None == <<>>
Some(x) == <<x>>
\* the filters a listing may be given
Queries ==
    {None, Some([field |-> "username", value |-> "alice"]),
     Some([field |-> "role", value |-> "user"])}

---------------------------------------------------------------------------
\* Call outcomes and Python call binding.

Ok(v) == [exc |-> "", status |-> 0, detail |-> "", www |-> FALSE, val |-> v]
Raise(e) == [exc |-> e, status |-> 0, detail |-> "", www |-> FALSE, val |-> None]
HTTPException(s, d, w) ==
    [exc |-> "HTTPException", status |-> s, detail |-> d, www |-> w, val |-> None]
IsRaise(r) == r.exc # ""
\* A RequestValidationError carries its errors, one per offending field.
RequestValidationError(errors) ==
    [exc |-> "RequestValidationError", status |-> 0, detail |-> "", www |-> FALSE,
     val |-> Some(errors)]
\* str(exc): the message of an exception
str(exc) ==
    CASE exc.exc = "HTTPException" -> exc.detail
      [] exc.exc = "NameError" -> "name 'UserRepository' is not defined"
      [] exc.exc = "TypeError" -> "missing 1 required positional argument"
      [] exc.exc = "ValueError" -> "object has no field"
      [] exc.exc = "PyMongoError" -> "connection refused"
      [] exc.exc = "InvalidId" -> "is not a valid ObjectId"
      [] OTHER -> "validation errors"

\* A call binds its positional arguments to the leading parameters and its
\* keyword arguments by name; a parameter left unbound is a TypeError.
Binds(params, npos, kws) ==
    /\ npos <= Len(params)
    /\ \A i \in 1..Len(params) : i <= npos \/ params[i] \in kws
Call(params, npos, kws, result) ==
    IF Binds(params, npos, kws) THEN result ELSE Raise("TypeError")

\* The names bound at module level in user_service.py (its imports and its class).
user_service_globals ==
    {"Optional", "List", "Dict", "Any", "Union", "status", "HTTPException",
     "jsonable_encoder", "ReturnDocument", "ObjectId", "datetime", "timedelta",
     "get_database", "UserCreate", "UserUpdate", "UserInDB", "UserResponse",
     "Token", "TokenData", "PaginatedResponse", "create_access_token",
     "get_password_hash", "verify_password", "settings", "CRUDPaginatedMongo",
     "UserService"}
\* A global name is looked up when the statement using it runs.
Global(name, result) ==
    IF name \in user_service_globals THEN result ELSE Raise("NameError")

---------------------------------------------------------------------------
\* Object ids.  str(ObjectId) is a 24-digit hex string; other strings ("me")
\* are not valid ids.

ObjectIdStr(n) == <<"oid", n>>
MalformedId == <<"bad", 0>>
ObjectId_is_valid(s) == s[1] = "oid"
ObjectId(s) == s[2]

---------------------------------------------------------------------------
\* Password primitives (core/security.py).

Salts == 1..NumSalts
HashWith(salt, password) == [alg |-> "bcrypt", salt |-> salt, pw |-> password]
verify_password(plain, hashed) == hashed.alg = "bcrypt" /\ hashed.pw = plain

---------------------------------------------------------------------------
\* Token primitives (core/security.py).  A JWT is its claims and the key it
\* was signed with; the other bearer strings are not JWTs.

SECRET_KEY == "your-secret-key-here"
DefaultExpireSeconds == 900
ACCESS_TOKEN_EXPIRE_MINUTES == 10080

Jwt(sub, exp, key) == [kind |-> "jwt", sub |-> sub, exp |-> exp, key |-> key]
NoToken == [kind |-> "none", sub |-> None, exp |-> None, key |-> ""]
MalformedToken == [kind |-> "malformed", sub |-> None, exp |-> None, key |-> ""]

\* expires_delta is an Optional[timedelta]; timedelta(0) is falsy.
Truthy(expires_delta) == expires_delta # None /\ expires_delta[1] # 0
create_access_token(data, expires_delta, t) ==
    LET expire == IF Truthy(expires_delta) THEN t + expires_delta[1]
                  ELSE t + DefaultExpireSeconds
    IN  Jwt(data.sub, Some(expire), SECRET_KEY)

\* jwt.decode: the signature is verified, then exp (rejected when exp < now).
jwt_decode(token, key, t) ==
    IF token.kind # "jwt" \/ token.key # key THEN Raise("JWTError")
    ELSE IF token.exp # None /\ token.exp[1] < t THEN Raise("JWTError")
    ELSE Ok(Some([sub |-> token.sub, exp |-> token.exp]))
decode_token(token, t) ==
    LET r == jwt_decode(token, SECRET_KEY, t)
    IN  IF r.exc = "JWTError" THEN None ELSE r.val

---------------------------------------------------------------------------
\* The database handle (db/session.py) and the lifespan (main.py).  A client
\* is known by the number of the connect that created it.

\* class DataBase: client and database, both None until assigned
NoDataBase == [client |-> None, database |-> None]
Connected(k) == [client |-> Some(k), database |-> Some(k)]
\* connect_to_mongo up to its await: client and database are assigned
connect_assign(k) == Connected(k)
\* connect_to_mongo's except branch: close and clear when a client is set
connect_cleanup(d) == IF d.client # None THEN NoDataBase ELSE d
\* a close that clears the client and leaves the database handle in place
close_mongo_connection_keeping_database(d) ==
    IF d.client # None THEN [client |-> None, database |-> d.database] ELSE d
\* close_mongo_connection: clears both when a client is set
close_mongo_connection(d) == IF d.client # None THEN NoDataBase ELSE d
get_database(d) ==
    IF d.database = None THEN Raise("RuntimeError") ELSE Ok(d.database)

\* The lifecycle: pc is "down" before startup and after shutdown, "ping"
\* while connect_to_mongo awaits the ping, "up" between startup and shutdown.
Lifecycle(pc, connects, got) == [pc |-> pc, connects |-> connects, got |-> got]
Serving == Lifecycle("up", 1, None)

---------------------------------------------------------------------------
\* The users collection (the database driver's operations on it).

Indices(store) == 1..Len(store)
\* A document is a record of the keys it stores; documents of one collection
\* need not store the same keys.
Matching(store, field, value) ==
    {i \in Indices(store) : field \in DOMAIN store[i] /\ store[i][field] = value}
\* find_one returns the first matching document in natural order, or None.
find_one(store, field, value) ==
    LET m == Matching(store, field, value)
    IN  IF m = {} THEN None
        ELSE Some(store[CHOOSE i \in m : \A j \in m : i <= j])
\* an insert that leaves the collection alone when the username is stored
insert_unless_stored(store, doc) ==
    IF Matching(store, "username", doc.username) = {} THEN Append(store, doc) ELSE store
insert_one(store, doc) == Append(store, doc)
count_documents(store) == Len(store)
\* a cursor that ignores skip
find_limit(store, skip, limit) ==
    SubSeq(store, 1, IF limit <= Len(store) THEN limit ELSE Len(store))
\* find().skip(skip).limit(limit), limit >= 1
find_skip_limit(store, skip, limit) ==
    IF skip >= Len(store) THEN <<>>
    ELSE SubSeq(store, skip + 1, IF skip + limit <= Len(store) THEN skip + limit ELSE Len(store))
\* update_one / delete_one act on the first document with the given _id.
\* $set replaces the keys the document has and adds those it has not.
SetFields(doc, update_data) ==
    [f \in DOMAIN doc \cup DOMAIN update_data |->
        IF f \in DOMAIN update_data THEN update_data[f] ELSE doc[f]]
update_one(store, id, update_data) ==
    LET m == Matching(store, "_id", id)
    IN  IF m = {} THEN store
        ELSE LET k == CHOOSE i \in m : \A j \in m : i <= j
             IN  [store EXCEPT ![k] = SetFields(store[k], update_data)]
deleted_count(store, id) == IF Matching(store, "_id", id) = {} THEN 0 ELSE 1
delete_one(store, id) ==
    LET m == Matching(store, "_id", id)
    IN  IF m = {} THEN store
        ELSE LET k == CHOOSE i \in m : \A j \in m : i <= j
             IN  SubSeq(store, 1, k - 1) \o SubSeq(store, k + 1, Len(store))

---------------------------------------------------------------------------
\* Schemas (schemas/user.py).

\* UserCreate: email, username, full_name, role and password.
UserCreates ==
    [email : Emails, username : Usernames, full_name : {None},
     role : Roles, password : {"longenough1"}]
\* A password under the minimum length of 8, and the body validation of
\* UserCreate: one error per field that breaks its constraint.
ShortPassword == "short"
RegisterBodies == UserCreates \cup {[u EXCEPT !.password = ShortPassword] : u \in
                      {v \in UserCreates : v.username = "alice" /\ v.role = "user"}}
validate_UserCreate(body) ==
    IF body.password = ShortPassword
    THEN RequestValidationError({<<"body", "password">>})
    ELSE Ok(Some(body))
\* UserUpdate: every field optional; <<>> is a field the request left unset.
EmptyUpdate ==
    [email |-> None, username |-> None, full_name |-> None, password |-> None,
     role |-> None]
UserUpdates ==
    {EmptyUpdate,
     [EmptyUpdate EXCEPT !.password = Some("longenough2")],
     [EmptyUpdate EXCEPT !.email = Some("b@x.com"), !.full_name = Some("Al")],
     [EmptyUpdate EXCEPT !.username = Some("bob"), !.role = Some("admin")]}
UserUpdateFields == {"email", "username", "full_name", "password", "role"}
fields_set(user_update) == {f \in UserUpdateFields : user_update[f] # None}

\* A flag a document does not store takes the schema's default, False.
FlagOf(opt) == IF opt = None THEN FALSE ELSE opt[1]
\* a key a document does not store takes the schema's default
Field(doc, f, default) == IF f \in DOMAIN doc THEN doc[f] ELSE default
\* a response schema that keeps the stored hash
UserResponse_keeping_hash(user, id) ==
    [id |-> id, email |-> user.email, username |-> user.username,
     full_name |-> Field(user, "full_name", None), role |-> Field(user, "role", "user"),
     hashed_password |-> Field(user, "hashed_password", None),
     disabled |-> FlagOf(Field(user, "disabled", None)),
     is_superuser |-> FlagOf(Field(user, "is_superuser", None)),
     created_at |-> Field(user, "created_at", now),
     updated_at |-> Field(user, "updated_at", None)]
\* UserResponse(**user): the schema's fields only; _id, hashed_password and
\* any other extra key are dropped, a missing optional key takes its default
\* (created_at: the instant of the conversion).
UserResponse(user, id) ==
    [id |-> id, email |-> user.email, username |-> user.username,
     full_name |-> Field(user, "full_name", None), role |-> Field(user, "role", "user"),
     disabled |-> FlagOf(Field(user, "disabled", None)),
     is_superuser |-> FlagOf(Field(user, "is_superuser", None)),
     created_at |-> Field(user, "created_at", now),
     updated_at |-> Field(user, "updated_at", None)]
\* UserInDB(**user) needs the key "id", which a stored document (keyed by _id)
\* does not have unless it was stored with one.
UserInDB(user) ==
    IF "id" \in DOMAIN user THEN Ok(Some(UserResponse(user, user.id)))
    ELSE Raise("ValidationError")

---------------------------------------------------------------------------
\* UserService, the methods defined with self (services/user_service.py).

MaxPageLimit == 100

convert_to_response(user) ==
    IF user = None THEN None
    ELSE Some(UserResponse(user[1], ObjectIdStr(user[1]._id)))
get_user(store, user_id) ==
    IF ~ObjectId_is_valid(user_id) THEN None
    ELSE convert_to_response(find_one(store, "_id", ObjectId(user_id)))
get_by_email(store, email) == convert_to_response(find_one(store, "email", email))
get_by_username(store, username) ==
    convert_to_response(find_one(store, "username", username))

Unchanged(store, outcome) == [res |-> outcome, users |-> store]
Min(a, b) == IF a <= b THEN a ELSE b
Max(a, b) == IF a >= b THEN a ELSE b
Page(items, total, page, page_size, total_pages) ==
    [items |-> items, total |-> total, page |-> page, page_size |-> page_size,
     total_pages |-> total_pages]
\* get_users from its cursor on, with the total it counted before: the
\* collection the cursor reads may differ from the one that was counted
listing(store, skip, limit, total) ==
    LET found == find_skip_limit(store, skip, limit)
        items == [i \in 1..Len(found) |-> convert_to_response(Some(found[i]))[1]]
    IN  Page(items, total, (skip \div limit) + 1,
             IF Len(items) > 0 THEN Min(limit, Len(items)) ELSE 0,
             (total + limit - 1) \div limit)
clamp(limit0) == Max(1, Min(MaxPageLimit, limit0))
lists_all(current_user) == current_user = None \/ current_user[1].is_superuser
\* current_user is an Optional[user]; run without another call in between
get_users(store, skip, limit0, current_user) ==
    LET limit == clamp(limit0)
    IN  IF ~lists_all(current_user)
        THEN LET user == get_user(store, current_user[1].id)
             IN  Page(user, IF user # None THEN 1 ELSE 0, 1, 1, 1)
        ELSE listing(store, skip, limit, count_documents(store))

\* CRUDPaginatedMongo.get_multi (db/pagination.py), inherited by UserService
\* with response model UserResponse.  query is an Optional[field, value].
Filter(store, query) ==
    IF query = None THEN store
    ELSE SelectSeq(store, LAMBDA doc : doc[query[1].field] = query[1].value)
\* self.model(**item): UserResponse needs the key "id"
self_model(item) ==
    IF "id" \in DOMAIN item THEN Ok(Some(UserResponse(item, item.id)))
    ELSE Raise("ValidationError")
\* get_multi from its cursor on, with the total it counted before
multi_page(store, page, page_size, query, total) ==
    LET skip == (page - 1) * page_size
        total_pages == (total + page_size - 1) \div page_size
        found == find_skip_limit(Filter(store, query), skip, page_size)
        items == [i \in 1..Len(found) |-> self_model(found[i])]
    IN  IF \E i \in 1..Len(found) : IsRaise(items[i])
        THEN items[CHOOSE i \in 1..Len(found) : IsRaise(items[i])]
        ELSE Ok(Some(Page([i \in 1..Len(found) |-> items[i].val[1]], total, page,
                          page_size, total_pages)))
\* run without another call in between
get_multi(store, page, page_size, query) ==
    multi_page(store, page, page_size, query, count_documents(Filter(store, query)))

\* CRUDPaginatedMongo.get / create / update / delete, inherited by UserService.
crud_get(store, id) ==
    IF ~ObjectId_is_valid(id) THEN Ok(None)
    ELSE LET item == find_one(store, "_id", ObjectId(id))
         IN  IF item = None THEN Ok(None) ELSE self_model(item[1])
\* insert_one(obj_in): the dict as given, under a fresh _id
crud_insert(store, id, obj_in) == insert_one(store, SetFields(obj_in, [_id |-> id]))
\* created = find_one(_id); return self.model(**created)
crud_created(store, id) ==
    LET created == find_one(store, "_id", id)
    IN  IF created = None THEN Raise("TypeError") ELSE self_model(created[1])
\* {k: v for k, v in obj_in.dict().items() if v is not None}: the password
\* goes in as given
crud_update_data(obj_in) ==
    [f \in fields_set(obj_in) |->
        IF f = "full_name" THEN obj_in.full_name ELSE obj_in[f][1]]
crud_update(store, id, obj_in) ==
    IF ~ObjectId_is_valid(id) THEN Unchanged(store, Ok(None))
    ELSE IF fields_set(obj_in) = {} THEN Unchanged(store, crud_get(store, id))
    ELSE LET after == update_one(store, ObjectId(id), crud_update_data(obj_in))
             result == find_one(after, "_id", ObjectId(id))
         IN  [res |-> IF result = None THEN Ok(None) ELSE self_model(result[1]),
              users |-> after]
crud_delete(store, id) ==
    IF ~ObjectId_is_valid(id) THEN Unchanged(store, Ok(Some(FALSE)))
    ELSE [res |-> Ok(Some(deleted_count(store, ObjectId(id)) > 0)),
          users |-> delete_one(store, ObjectId(id))]

\* create_user, between its awaits.  The document it inserts: the request's
\* fields without the password, the hash and the two timestamps; no flags.
\* a document whose superuser flag follows the requested role
NewDocument_role_as_flag(id, user_in, hashed_password, t) ==
    [_id |-> id, email |-> user_in.email, username |-> user_in.username,
     full_name |-> user_in.full_name, role |-> user_in.role,
     hashed_password |-> hashed_password, disabled |-> None,
     is_superuser |-> IF user_in.role = "admin" THEN Some(TRUE) ELSE None,
     created_at |-> t, updated_at |-> Some(t)]
NewDocument(id, user_in, hashed_password, t) ==
    [_id |-> id, email |-> user_in.email, username |-> user_in.username,
     full_name |-> user_in.full_name, role |-> user_in.role,
     hashed_password |-> hashed_password, disabled |-> None, is_superuser |-> None,
     created_at |-> t, updated_at |-> Some(t)]
\* create_user without its username check
username_never_taken(store, user_in) == FALSE
email_taken(store, user_in) == get_by_email(store, user_in.email) # None
username_taken(store, user_in) == get_by_username(store, user_in.username) # None
\* create_user run without another request in between: outcome and collection.
create_user(store, id, user_in, hashed_password, t) ==
    IF email_taken(store, user_in) THEN [res |-> Ok(None), users |-> store]
    ELSE IF username_taken(store, user_in) THEN [res |-> Ok(None), users |-> store]
    ELSE LET after == insert_one(store, NewDocument(id, user_in, hashed_password, t))
         IN  [res |-> Ok(convert_to_response(find_one(after, "_id", id))),
              users |-> after]

create_access_token_for_user(user, t) ==
    create_access_token([sub |-> Some(user.username)],
                        Some(ACCESS_TOKEN_EXPIRE_MINUTES * 60), t)

---------------------------------------------------------------------------
\* UserRepository (repository/user.py).

\* get_database is a plain function; what it returns cannot be awaited.
get_database_is_awaitable == FALSE
Await(awaitable, result) == IF awaitable THEN result ELSE Raise("TypeError")
get_collection == Await(get_database_is_awaitable, Ok(None))

Found(user) == IF user = None THEN Ok(None) ELSE UserInDB(user[1])
UserRepository_get(store, user_id) ==
    IF IsRaise(get_collection) THEN get_collection
    ELSE IF ~ObjectId_is_valid(user_id) THEN Raise("InvalidId")
    ELSE Found(find_one(store, "_id", ObjectId(user_id)))
UserRepository_get_by_email(store, email) ==
    IF IsRaise(get_collection) THEN get_collection
    ELSE Found(find_one(store, "email", email))
UserRepository_get_by_username(store, username) ==
    IF IsRaise(get_collection) THEN get_collection
    ELSE Found(find_one(store, "username", username))

\* user.dict(exclude_unset=True), with password replaced by its hash
update_keys(user) ==
    (fields_set(user) \ {"password"})
        \cup (IF user.password # None THEN {"hashed_password"} ELSE {})
update_data(user, hashed_password) ==
    [f \in update_keys(user) |->
        IF f = "hashed_password" THEN hashed_password
        ELSE IF f = "full_name" THEN user.full_name
        ELSE user[f][1]]
UserRepository_update(store, user_id, user, hashed_password) ==
    IF IsRaise(get_collection) THEN [res |-> get_collection, users |-> store]
    ELSE IF update_keys(user) = {}
    THEN [res |-> UserRepository_get(store, user_id), users |-> store]
    ELSE IF ~ObjectId_is_valid(user_id) THEN [res |-> Raise("InvalidId"), users |-> store]
    ELSE LET after == update_one(store, ObjectId(user_id), update_data(user, hashed_password))
         IN  [res |-> UserRepository_get(after, user_id), users |-> after]
UserRepository_delete(store, user_id) ==
    IF IsRaise(get_collection) THEN [res |-> get_collection, users |-> store]
    ELSE IF ~ObjectId_is_valid(user_id) THEN [res |-> Raise("InvalidId"), users |-> store]
    ELSE [res |-> Ok(Some(deleted_count(store, ObjectId(user_id)) > 0)),
          users |-> delete_one(store, ObjectId(user_id))]
UserRepository_authenticate(store, username, password) ==
    LET user == UserRepository_get_by_username(store, username)
    IN  IF IsRaise(user) THEN user
        ELSE IF user.val = None THEN Ok(None)
        ELSE IF ~verify_password(password, find_one(store, "username", username)[1].hashed_password)
        THEN Ok(None)
        ELSE user

---------------------------------------------------------------------------
\* UserService, the static methods (services/user_service.py).  Each names
\* UserRepository in its first statement.

NotFound == HTTPException(404, "User not found", FALSE)

update_user_body(store, user_id, user_update, hashed_password) ==
    LET existing_user == UserRepository_get(store, user_id)
        email_exists == UserRepository_get_by_email(store, user_update.email[1])
        username_exists == UserRepository_get_by_username(store, user_update.username[1])
        check_email == user_update.email # None
                         /\ user_update.email[1] # existing_user.val[1].email
        check_username == user_update.username # None
                         /\ user_update.username[1] # existing_user.val[1].username
    IN  IF IsRaise(existing_user) THEN Unchanged(store, existing_user)
        ELSE IF existing_user.val = None THEN Unchanged(store, NotFound)
        ELSE IF check_email /\ IsRaise(email_exists) THEN Unchanged(store, email_exists)
        ELSE IF check_email /\ email_exists.val # None
        THEN Unchanged(store, HTTPException(400, "Email already registered", FALSE))
        ELSE IF check_username /\ IsRaise(username_exists)
        THEN Unchanged(store, username_exists)
        ELSE IF check_username /\ username_exists.val # None
        THEN Unchanged(store, HTTPException(400, "Username already taken", FALSE))
        ELSE UserRepository_update(store, user_id, user_update, hashed_password)
update_user(store, user_id, user_update, hashed_password) ==
    IF IsRaise(Global("UserRepository", Ok(None)))
    THEN Unchanged(store, Global("UserRepository", Ok(None)))
    ELSE update_user_body(store, user_id, user_update, hashed_password)

delete_user_body(store, user_id) ==
    LET existing_user == UserRepository_get(store, user_id)
    IN  IF IsRaise(existing_user) THEN Unchanged(store, existing_user)
        ELSE IF existing_user.val = None THEN Unchanged(store, NotFound)
        ELSE UserRepository_delete(store, user_id)
delete_user(store, user_id) ==
    IF IsRaise(Global("UserRepository", Ok(None)))
    THEN Unchanged(store, Global("UserRepository", Ok(None)))
    ELSE delete_user_body(store, user_id)

BadCredentials == HTTPException(401, "Incorrect username or password", TRUE)
authenticate_user(store, username, password) ==
    LET user == Global("UserRepository",
                       UserRepository_authenticate(store, username, password))
    IN  IF IsRaise(user) THEN user
        ELSE IF user.val = None THEN BadCredentials
        ELSE user

---------------------------------------------------------------------------
\* The auth dependency chain (core/security.py).

credentials_exception == HTTPException(401, "Could not validate credentials", TRUE)
\* OAuth2PasswordBearer: no bearer credential in the request is a 401.
oauth2_scheme(token) ==
    IF token.kind = "none" THEN HTTPException(401, "Not authenticated", TRUE)
    ELSE Ok(Some(token))

get_by_username_params == <<"self", "username">>
\* user = await UserService.get_by_username(username=username), on the class
lookup_user(store, username) ==
    Call(get_by_username_params, 0, {"username"}, Ok(get_by_username(store, username)))
get_current_user(store, token, t) ==
    LET payload == decode_token(token, t)
    IN  IF payload = None THEN credentials_exception
        ELSE IF payload[1].sub = None THEN credentials_exception
        ELSE LET user == lookup_user(store, payload[1].sub[1])
             IN  IF IsRaise(user) THEN user
                 ELSE IF user.val = None THEN credentials_exception
                 ELSE user
get_current_active_user(current_user) ==
    IF current_user.val[1].disabled THEN HTTPException(400, "Inactive user", FALSE)
    ELSE current_user
get_current_active_superuser(current_user) ==
    IF ~current_user.val[1].is_superuser
    THEN HTTPException(403, "The user doesn't have enough privileges", FALSE)
    ELSE current_user

\* Depends(...): each dependency runs only when the one it depends on returned.
Depends_current_user(store, token, t) ==
    LET bearer == oauth2_scheme(token)
    IN  IF IsRaise(bearer) THEN bearer ELSE get_current_user(store, token, t)
Depends_active_user(store, token, t) ==
    LET current_user == Depends_current_user(store, token, t)
    IN  IF IsRaise(current_user) THEN current_user
        ELSE get_current_active_user(current_user)
Depends_active_superuser(store, token, t) ==
    LET current_user == Depends_active_user(store, token, t)
    IN  IF IsRaise(current_user) THEN current_user
        ELSE get_current_active_superuser(current_user)

---------------------------------------------------------------------------
\* The application's exception handlers and response serialisation (main.py).

HttpCode(status) ==
    CASE status = 400 -> "http_400" [] status = 401 -> "http_401"
      [] status = 403 -> "http_403" [] status = 404 -> "http_404"
      [] status = 405 -> "http_405"
      [] OTHER -> "http_xxx"
\* A response: an error body is {detail, code, errors?}, a success has body.
Response(status, detail, code, body) ==
    [status |-> status, detail |-> detail, code |-> code, errors |-> None,
     www |-> FALSE, body |-> body]
\* http_exception_handler builds the response from status and detail only:
\* the exception's headers are not copied.
http_exception_handler(exc) == Response(exc.status, exc.detail, HttpCode(exc.status), None)
validation_exception_handler(exc) ==
    [Response(422, "Validation Error", "validation_error", None)
        EXCEPT !.errors = Some([_schema |-> "Invalid request format",
                                details |-> exc.val[1]])]
mongo_exception_handler(exc) ==
    Response(500, "Database operation failed", "database_error", None)
\* a handler that answers with the exception's message
global_exception_handler_with_message(exc) ==
    Response(500, str(exc), "internal_server_error", None)
global_exception_handler(exc) ==
    Response(500, "Internal server error", "internal_server_error", None)
Respond(outcome, success_status) ==
    IF outcome.exc = "" THEN Response(success_status, "", "", outcome.val)
    ELSE IF outcome.exc = "HTTPException" THEN http_exception_handler(outcome)
    ELSE IF outcome.exc = "RequestValidationError"
    THEN validation_exception_handler(outcome)
    ELSE IF outcome.exc = "PyMongoError" THEN mongo_exception_handler(outcome)
    ELSE global_exception_handler(outcome)

\* response_model=UserResponse: a handler that returns None fails serialisation.
SerializeUser(outcome) ==
    IF ~IsRaise(outcome) /\ outcome.val = None THEN Raise("ResponseValidationError")
    ELSE outcome
\* response_model=PaginatedResponse: the fields page_size and total_pages are
\* declared under the aliases pageSize and totalPages, and a dict is validated
\* by alias.
PaginatedAliases == {"items", "total", "page", "pageSize", "totalPages"}
PageKeys == {"items", "total", "page", "page_size", "total_pages"}
SerializePage(outcome) ==
    IF ~IsRaise(outcome) /\ ~(PaginatedAliases \subseteq PageKeys)
    THEN Raise("ResponseValidationError")
    ELSE outcome

---------------------------------------------------------------------------
\* The route handlers (api/v1/endpoints/auth.py and users.py).  Each gives
\* the outcome of the endpoint function and the collection it leaves.

create_user_params == <<"self", "user_in">>
get_user_params == <<"self", "user_id">>

\* user = await UserService.create_user(user_in), on the class
register(store, id, user_in, hashed_password, t) ==
    IF ~Binds(create_user_params, 1, {}) THEN Unchanged(store, Raise("TypeError"))
    ELSE LET created == create_user(store, id, user_in, hashed_password, t)
         IN  [res |-> SerializeUser(created.res), users |-> created.users]

login_access_token(store, username, password, t) ==
    LET user == authenticate_user(store, username, password)
    IN  IF IsRaise(user) THEN user
        ELSE Ok(Some([access_token |-> create_access_token_for_user(user.val[1], t),
                      token_type |-> "bearer"]))

\* user_service = UserService(); await user_service.get_users(...)
read_users(store, skip, limit, current_user) ==
    SerializePage(Ok(Some(get_users(store, skip, limit, Some(current_user)))))

\* user = await UserService.get_user(user_id), on the class
read_user_by_id(store, user_id, current_user) ==
    IF ~ObjectId_is_valid(user_id) THEN NotFound
    ELSE LET user == Call(get_user_params, 1, {}, Ok(get_user(store, user_id)))
         IN  IF IsRaise(user) THEN user
             ELSE IF user.val = None THEN NotFound
             ELSE IF ~current_user.is_superuser /\ user.val[1].id # current_user.id
             THEN HTTPException(403, "Not enough permissions", FALSE)
             ELSE user

read_user_me(current_user) == Ok(Some(current_user))

\* user_in.hashed_password = ...: UserUpdate declares no such field
update_user_me(store, user_in, current_user, hashed_password) ==
    IF user_in.password # None /\ "hashed_password" \notin UserUpdateFields
    THEN Unchanged(store, Raise("ValueError"))
    ELSE update_user(store, current_user.id, user_in, hashed_password)

delete_user_me(store, current_user) ==
    LET deleted == delete_user(store, current_user.id)
    IN  IF IsRaise(deleted.res) THEN deleted
        ELSE [res |-> Ok(None), users |-> deleted.users]

---------------------------------------------------------------------------
\* Routing (api/v1/__init__.py, the routers of auth.py and users.py, main.py).
\* A path is the sequence of its segments; "/users/" ends with an empty one.

Lit(s) == <<s, 0>>
Param == Lit("{user_id}")
Me == Lit("me")
\* a path parameter matches any segment that is not empty
SegmentMatches(pattern, segment) ==
    IF pattern = Param THEN segment # Lit("") ELSE pattern = segment
PathMatches(pattern, path) ==
    /\ Len(pattern) = Len(path)
    /\ \A i \in 1..Len(path) : SegmentMatches(pattern[i], path[i])

APIRoute(method, path, endpoint) == [method |-> method, path |-> path, endpoint |-> endpoint]
\* APIRouter(prefix=...): each route is added under the router's own prefix,
\* in the order the decorators run.
auth_router ==
    <<APIRoute("POST", <<Lit("auth"), Lit("test-token")>>, "test_token"),
      APIRoute("POST", <<Lit("auth"), Lit("login"), Lit("access-token")>>,
               "login_access_token"),
      APIRoute("POST", <<Lit("auth"), Lit("register")>>, "register")>>
users_router ==
    <<APIRoute("GET", <<Lit("users"), Lit("")>>, "read_users"),
      APIRoute("GET", <<Lit("users"), Param>>, "read_user_by_id"),
      APIRoute("GET", <<Lit("users"), Me>>, "read_user_me"),
      APIRoute("PUT", <<Lit("users"), Me>>, "update_user_me"),
      APIRoute("DELETE", <<Lit("users"), Me>>, "delete_user_me")>>
\* include_router(router, prefix): every route of the router, in order,
\* under the given prefix
include_router(routes, prefix) ==
    [i \in DOMAIN routes |-> [routes[i] EXCEPT !.path = prefix \o @]]
API_V1_STR == <<Lit("api"), Lit("v1")>>
\* api_router has the prefix /api/v1 of its own and includes the two routers
\* under /auth and /users
api_router ==
    include_router(include_router(auth_router, <<Lit("auth")>>)
                       \o include_router(users_router, <<Lit("users")>>),
                   <<Lit("api"), Lit("v1")>>)
app_routes == include_router(api_router, API_V1_STR)

\* The router takes the first route that matches path and method; a path
\* that only routes of other methods match is 405, an unmatched path 404.
Route(method, path) ==
    LET matching == {i \in DOMAIN app_routes : PathMatches(app_routes[i].path, path)}
        full == {i \in matching : app_routes[i].method = method}
    IN  IF full # {} THEN app_routes[CHOOSE i \in full : \A j \in full : i <= j].endpoint
        ELSE IF matching # {} THEN "method_not_allowed"
        ELSE "not_found"
no_route(endpoint) ==
    IF endpoint = "method_not_allowed" THEN HTTPException(405, "Method Not Allowed", FALSE)
    ELSE HTTPException(404, "Not Found", FALSE)

---------------------------------------------------------------------------
\* Requests.

\* The bearer credentials a client may present: none, a string that is no
\* JWT, and JWTs with or without a sub claim, signed with the application's
\* key or with another one, expiring early or late.
RequestTokens ==
    {NoToken, MalformedToken,
     Jwt(None, Some(MaxTime + 1), SECRET_KEY),
     Jwt(Some("alice"), Some(MaxTime + 1), "another-key"),
     Jwt(Some("alice"), Some(1), SECRET_KEY)}
        \cup {Jwt(Some(u), Some(MaxTime + 1), SECRET_KEY) : u \in Usernames}
RequestIds == {ObjectIdStr(n) : n \in 1..MaxDocs} \cup {MalformedId}
\* The paths a client may address: those of the API as documented
\* (/api/v1/auth/..., /api/v1/users/...) and those the routes are mounted at.
PathTails ==
    {<<Lit("register")>>, <<Lit("login"), Lit("access-token")>>}
Documented(router, tail) == API_V1_STR \o <<Lit(router)>> \o tail
Mounted(router, tail) ==
    API_V1_STR \o <<Lit("api"), Lit("v1"), Lit(router), Lit(router)>> \o tail
RequestPaths ==
    UNION {{Documented("auth", tail), Mounted("auth", tail)} : tail \in PathTails}
        \cup UNION {{Documented("users", <<seg>>), Mounted("users", <<seg>>)} :
                        seg \in RequestIds \cup {Me, Lit("")}}
Methods == {"GET", "POST", "PUT", "DELETE"}

\* every request with the endpoint the router dispatches it to
Routed ==
    {[method |-> method, path |-> path, endpoint |-> Route(method, path)] :
        method \in Methods, path \in RequestPaths}
Request(routed, token, arg, t) ==
    [method |-> routed.method, path |-> routed.path, handler |-> routed.endpoint,
     token |-> token, arg |-> arg, at |-> t]
NoRequest ==
    [method |-> "", path |-> <<>>, handler |-> "", token |-> NoToken, arg |-> <<>>,
     at |-> 0]
NoResponse == Response(0, "", "", None)

\* A request is answered in one step: no handler reaches a database call
\* that another request could interleave with.
Answer(request, outcome, success_status) ==
    /\ Len(outcome.users) <= MaxDocs
    /\ req' = request
    /\ resp' = Respond(outcome.res, success_status)
    /\ users' = outcome.users
    /\ nextId' = IF Len(outcome.users) > Len(users) THEN nextId + 1 ELSE nextId
    /\ UNCHANGED <<now, calls, minted, decoded, db, lifespan>>

\* A protected route: the dependency chain first, the handler only after it.
Protected(token, handled) ==
    LET current_user == Depends_active_user(users, token, now)
    IN  IF IsRaise(current_user) THEN Unchanged(users, current_user) ELSE handled

CurrentUser(token) == Depends_active_user(users, token, now).val[1]

\* the body is validated against UserCreate before the endpoint runs
Register ==
    \E r \in Routed, user_in \in RegisterBodies, h \in Salts :
        /\ r.endpoint = "register"
        /\ Answer(Request(r, NoToken, <<user_in>>, now),
                  IF IsRaise(validate_UserCreate(user_in))
                  THEN Unchanged(users, validate_UserCreate(user_in))
                  ELSE register(users, nextId, user_in,
                                HashWith(h, user_in.password), now),
                  201)
Login ==
    \E r \in Routed, username \in Usernames, password \in Passwords :
        /\ r.endpoint = "login_access_token"
        /\ Answer(Request(r, NoToken, <<username, password>>, now),
                  Unchanged(users, login_access_token(users, username, password, now)),
                  200)
ReadUsers ==
    \E r \in Routed, token \in RequestTokens, skip \in 0..MaxSkip, limit \in 1..MaxLimit :
        /\ r.endpoint = "read_users"
        /\ Answer(Request(r, token, <<skip, limit>>, now),
                  Protected(token, Unchanged(users,
                      read_users(users, skip, limit, CurrentUser(token)))),
                  200)
\* GET of a one-segment path under the users router: the router picks the
\* endpoint, and the segment is the path parameter of read_user_by_id.
ReadUserById ==
    \E r \in Routed, token \in RequestTokens :
        LET user_id == r.path[Len(r.path)]
        IN  /\ r.endpoint \in {"read_user_by_id", "read_user_me"}
            /\ Answer(Request(r, token, <<user_id>>, now),
                      Protected(token, Unchanged(users, SerializeUser(
                          IF r.endpoint = "read_user_by_id"
                          THEN read_user_by_id(users, user_id, CurrentUser(token))
                          ELSE read_user_me(CurrentUser(token))))),
                      200)
UpdateUserMe ==
    \E r \in Routed, token \in RequestTokens, user_in \in UserUpdates, h \in Salts :
        /\ r.endpoint = "update_user_me"
        /\ Answer(Request(r, token, <<user_in>>, now),
                  Protected(token,
                      LET updated == update_user_me(users, user_in, CurrentUser(token),
                                         HashWith(h, IF user_in.password = None
                                                     THEN "" ELSE user_in.password[1]))
                      IN  [res |-> SerializeUser(updated.res), users |-> updated.users]),
                  200)
DeleteUserMe ==
    \E r \in Routed, token \in RequestTokens :
        /\ r.endpoint = "delete_user_me"
        /\ Answer(Request(r, token, <<>>, now),
                  Protected(token, delete_user_me(users, CurrentUser(token))),
                  204)
\* a request no route serves is answered by the router itself
Unrouted ==
    \E r \in Routed :
        /\ r.endpoint \in {"not_found", "method_not_allowed"}
        /\ Answer(Request(r, NoToken, <<>>, now),
                  Unchanged(users, no_route(r.endpoint)), 200)
Tick ==
    /\ now < MaxTime
    /\ now' = now + 1
    /\ UNCHANGED <<users, nextId, req, resp, calls, minted, decoded, db, lifespan>>

---------------------------------------------------------------------------
\* The application serving requests over a database that already holds
\* users.  The flags disabled and is_superuser are set by no operation of
\* the program, so the stored users come with them.

EmailOf(username) == IF username = "alice" THEN "a@x.com" ELSE "b@x.com"
StoredUser(id, username, disabled, is_superuser) ==
    [_id |-> id, email |-> EmailOf(username), username |-> username,
     full_name |-> None, role |-> "user",
     hashed_password |-> HashWith(1, "longenough1"),
     disabled |-> disabled, is_superuser |-> is_superuser,
     created_at |-> 0, updated_at |-> Some(0)]
Flags == {<<None, None>>, <<Some(TRUE), None>>, <<Some(FALSE), Some(TRUE)>>}
StoredUsers(id) ==
    {StoredUser(id, u, f[1], f[2]) : u \in Usernames, f \in Flags}
Collections ==
    {<<>>}
        \cup (IF MaxDocs >= 1 THEN {<<d>> : d \in StoredUsers(1)} ELSE {})
        \cup (IF MaxDocs >= 2
              THEN {c \in StoredUsers(1) \X StoredUsers(2) :
                        c[1].username # c[2].username}
              ELSE {})

IdleCall ==
    [op |-> "", pc |-> "idle", arg |-> <<>>, inserted |-> None, total |-> None,
     res |-> Ok(None)]

Init ==
    /\ users \in Collections
    /\ nextId = Len(users) + 1
    /\ now = 0
    /\ req = NoRequest
    /\ resp = NoResponse
    /\ calls = [p \in Procs |-> IdleCall]
    /\ minted = None
    /\ decoded = None
    /\ db = Connected(1)
    /\ lifespan = Serving

Next ==
    \/ Register
    \/ Login
    \/ ReadUsers
    \/ ReadUserById
    \/ UpdateUserMe
    \/ DeleteUserMe
    \/ Unrouted
    \/ Tick

Spec == Init /\ [][Next]_vars

---------------------------------------------------------------------------
\* The service called directly.  create_user suspends at each of its four
\* database calls, so it is four steps; update_user, delete_user and
\* authenticate_user raise before their first database call and are one.

ServiceCreates ==
    {u \in UserCreates : u.role = "user" \/ (u.username = "bob" /\ u.email = "b@x.com")}

Running(op, pc, arg, inserted) ==
    [op |-> op, pc |-> pc, arg |-> arg, inserted |-> inserted, total |-> None,
     res |-> Ok(None)]
Done(call, outcome) == [call EXCEPT !.pc = "done", !.res = outcome]
InFlight(p) == calls[p].pc \notin {"idle", "done"}
\* no other caller is inside a call
Quiet(p) == \A q \in Procs \ {p} : ~InFlight(q)
\* no other caller is inside a call or holds an outcome it has not taken
Alone(p) == \A q \in Procs \ {p} : calls[q].pc = "idle"
\* no other caller holds an outcome it has not taken
Taken(p) == \A q \in Procs \ {p} : calls[q].pc # "done"

BeginCreate(p, user_in) ==
    /\ calls[p].pc = "idle"
    /\ calls' = [calls EXCEPT ![p] = Running("create_user", "get_by_email", <<user_in>>, None)]
    /\ UNCHANGED <<users, nextId, now, req, resp, minted, decoded, db, lifespan>>
CheckEmail(p) ==
    /\ calls[p].op = "create_user" /\ calls[p].pc = "get_by_email"
    /\ calls' = [calls EXCEPT ![p] =
                    IF email_taken(users, calls[p].arg[1]) THEN Done(@, Ok(None))
                    ELSE [@ EXCEPT !.pc = "get_by_username"]]
    /\ UNCHANGED <<users, nextId, now, req, resp, minted, decoded, db, lifespan>>
CheckUsername(p) ==
    /\ calls[p].op = "create_user" /\ calls[p].pc = "get_by_username"
    /\ calls' = [calls EXCEPT ![p] =
                    IF username_taken(users, calls[p].arg[1]) THEN Done(@, Ok(None))
                    ELSE [@ EXCEPT !.pc = "insert_one"]]
    /\ UNCHANGED <<users, nextId, now, req, resp, minted, decoded, db, lifespan>>
InsertOne(p) ==
    /\ calls[p].op = "create_user" /\ calls[p].pc = "insert_one"
    /\ Len(users) < MaxDocs /\ nextId <= MaxInserts
    /\ \E h \in Salts :
        users' = insert_one(users, NewDocument(nextId, calls[p].arg[1],
                                HashWith(h, calls[p].arg[1].password), now))
    /\ nextId' = nextId + 1
    /\ calls' = [calls EXCEPT ![p] = [@ EXCEPT !.pc = "find_one", !.inserted = Some(nextId)]]
    /\ UNCHANGED <<now, req, resp, minted, decoded, db, lifespan>>
FindCreated(p) ==
    /\ calls[p].op = "create_user" /\ calls[p].pc = "find_one"
    /\ calls' = [calls EXCEPT ![p] =
                    Done(@, Ok(convert_to_response(
                                 find_one(users, "_id", calls[p].inserted[1]))))]
    /\ UNCHANGED <<users, nextId, now, req, resp, minted, decoded, db, lifespan>>

\* a static method, start to end
Static(p, op, arg, outcome) ==
    /\ calls[p].pc = "idle"
    /\ calls' = [calls EXCEPT ![p] = Done(Running(op, "idle", arg, None), outcome.res)]
    /\ users' = outcome.users
    /\ UNCHANGED <<nextId, now, req, resp, minted, decoded, db, lifespan>>
UpdateUser(p) ==
    \E user_id \in RequestIds, user_update \in UserUpdates, h \in Salts :
        Static(p, "update_user", <<user_id, user_update>>,
               update_user(users, user_id, user_update,
                           HashWith(h, IF user_update.password = None
                                       THEN "" ELSE user_update.password[1])))
DeleteUser(p) ==
    \E user_id \in RequestIds :
        Static(p, "delete_user", <<user_id>>, delete_user(users, user_id))
AuthenticateUser(p) ==
    \E username \in Usernames, password \in Passwords :
        Static(p, "authenticate_user", <<username, password>>,
               Unchanged(users, authenticate_user(users, username, password)))
\* get_users: a requester who is listed their own record alone is answered
\* from one find_one; otherwise count_documents is awaited first and the
\* cursor is read in a later step.  The caller is anonymous (None) or one of
\* the stored users.
GetUsers(p) ==
    \E skip \in 0..MaxSkip, limit \in 1..MaxLimit,
       current_user \in {None} \cup {convert_to_response(Some(users[i])) : i \in Indices(users)} :
        IF lists_all(current_user)
        THEN /\ calls[p].pc = "idle"
             /\ calls' = [calls EXCEPT ![p] =
                    [Running("get_users", "find", <<skip, limit, current_user>>, None)
                        EXCEPT !.total = Some(count_documents(users))]]
             /\ UNCHANGED <<users, nextId, now, req, resp, minted, decoded, db, lifespan>>
        ELSE Static(p, "get_users", <<skip, limit, current_user>>,
                    Unchanged(users, Ok(Some(get_users(users, skip, limit, current_user)))))
FindUsers(p) ==
    /\ calls[p].op = "get_users" /\ calls[p].pc = "find"
    /\ calls' = [calls EXCEPT ![p] =
                    Done(@, Ok(Some(listing(users, calls[p].arg[1], clamp(calls[p].arg[2]),
                                            calls[p].total[1]))))]
    /\ UNCHANGED <<users, nextId, now, req, resp, minted, decoded, db, lifespan>>
\* get_multi: count_documents is awaited first, cursor.to_list in a later step
GetMulti(p) ==
    \E page \in 1..MaxPage, page_size \in 1..MaxLimit, query \in Queries :
        /\ calls[p].pc = "idle"
        /\ calls' = [calls EXCEPT ![p] =
                [Running("get_multi", "to_list", <<page, page_size, query>>, None)
                    EXCEPT !.total = Some(count_documents(Filter(users, query)))]]
        /\ UNCHANGED <<users, nextId, now, req, resp, minted, decoded, db, lifespan>>
ToList(p) ==
    /\ calls[p].op = "get_multi" /\ calls[p].pc = "to_list"
    /\ calls' = [calls EXCEPT ![p] =
                    Done(@, multi_page(users, calls[p].arg[1], calls[p].arg[2],
                                       calls[p].arg[3], calls[p].total[1]))]
    /\ UNCHANGED <<users, nextId, now, req, resp, minted, decoded, db, lifespan>>
\* create: insert_one is awaited first, find_one in a later step
\* obj_in is any dict: one with the keys of a registration request, and one
\* that also carries the superuser flag
ObjIns ==
    {[email |-> "a@x.com", username |-> "alice", role |-> "user"],
     [email |-> "b@x.com", username |-> "bob", role |-> "user",
      is_superuser |-> Some(TRUE)]}
Create(p) ==
    \E obj_in \in ObjIns :
        /\ calls[p].pc = "idle"
        /\ Len(users) < MaxDocs /\ nextId <= MaxInserts
        /\ users' = crud_insert(users, nextId, obj_in)
        /\ nextId' = nextId + 1
        /\ calls' = [calls EXCEPT ![p] =
                        Running("create", "find_one", <<obj_in>>, Some(nextId))]
        /\ UNCHANGED <<now, req, resp, minted, decoded, db, lifespan>>
FindItem(p) ==
    /\ calls[p].op = "create" /\ calls[p].pc = "find_one"
    /\ calls' = [calls EXCEPT ![p] = Done(@, crud_created(users, calls[p].inserted[1]))]
    /\ UNCHANGED <<users, nextId, now, req, resp, minted, decoded, db, lifespan>>
\* get, update and delete make one database call each
Get(p) ==
    \E id \in RequestIds :
        Static(p, "get", <<id>>, Unchanged(users, crud_get(users, id)))
Update(p) ==
    \E id \in RequestIds, obj_in \in UserUpdates :
        Static(p, "update", <<id, obj_in>>, crud_update(users, id, obj_in))
Delete(p) ==
    \E id \in RequestIds :
        Static(p, "delete", <<id>>, crud_delete(users, id))
\* the caller takes the outcome
Return(p) ==
    /\ calls[p].pc = "done"
    /\ calls' = [calls EXCEPT ![p] = IdleCall]
    /\ UNCHANGED <<users, nextId, now, req, resp, minted, decoded, db, lifespan>>

InitService ==
    /\ users = <<>>
    /\ nextId = 1
    /\ now = 0
    /\ req = NoRequest
    /\ resp = NoResponse
    /\ calls = [p \in Procs |-> IdleCall]
    /\ minted = None
    /\ decoded = None
    /\ db = Connected(1)
    /\ lifespan = Serving

\* Calls one after the other: a call starts only when no other is in flight.
NextService ==
    \E p \in Procs :
        \/ Quiet(p) /\ (\E user_in \in ServiceCreates : BeginCreate(p, user_in))
        \/ CheckEmail(p)
        \/ CheckUsername(p)
        \/ InsertOne(p)
        \/ FindCreated(p)
        \/ Quiet(p) /\ UpdateUser(p)
        \/ Quiet(p) /\ DeleteUser(p)
        \/ Quiet(p) /\ AuthenticateUser(p)
        \/ Quiet(p) /\ GetUsers(p)
        \/ FindUsers(p)
        \/ Quiet(p) /\ GetMulti(p)
        \/ ToList(p)
        \/ Return(p)
SpecService == InitService /\ [][NextService]_vars

\* Overlapping calls: each request runs on its own task, and nothing in the
\* service keeps a second call from starting while the first is suspended.
NextOverlap ==
    \E p \in Procs :
        \/ \E user_in \in ServiceCreates : BeginCreate(p, user_in)
        \/ CheckEmail(p)
        \/ CheckUsername(p)
        \/ InsertOne(p)
        \/ FindCreated(p)
        \/ UpdateUser(p)
        \/ DeleteUser(p)
        \/ Return(p)
SpecOverlap == InitService /\ [][NextOverlap]_vars

\* The methods of a UserService instance, the inherited ones included,
\* called one after the other, each outcome taken before the next call.
NextCrud ==
    \E p \in Procs :
        \/ Alone(p) /\ (\E user_in \in ServiceCreates : BeginCreate(p, user_in))
        \/ CheckEmail(p)
        \/ CheckUsername(p)
        \/ InsertOne(p)
        \/ FindCreated(p)
        \/ Alone(p) /\ GetUsers(p)
        \/ FindUsers(p)
        \/ Alone(p) /\ GetMulti(p)
        \/ ToList(p)
        \/ Alone(p) /\ Create(p)
        \/ FindItem(p)
        \/ Alone(p) /\ Get(p)
        \/ Alone(p) /\ Update(p)
        \/ Alone(p) /\ Delete(p)
        \/ Return(p)
SpecCrud == InitService /\ [][NextCrud]_vars

---------------------------------------------------------------------------
\* The token primitives over time: a token is minted for a username with an
\* optional lifetime, the clock advances, the token is decoded.

Lifetimes == {None} \cup {Some(d) : d \in -1..MaxTtl}

MintToken ==
    \E u \in Usernames, ttl \in Lifetimes :
        /\ minted' = Some([token |-> create_access_token([sub |-> Some(u)], ttl, now),
                           sub |-> u, ttl |-> ttl, at |-> now])
        /\ decoded' = None
        /\ UNCHANGED <<users, nextId, now, req, resp, calls, db, lifespan>>
DecodeToken ==
    /\ minted # None
    /\ decoded' = Some([at |-> now, claims |-> decode_token(minted[1].token, now)])
    /\ UNCHANGED <<users, nextId, now, req, resp, calls, minted, db, lifespan>>

NextToken ==
    \/ MintToken
    \/ DecodeToken
    \/ Tick
SpecToken == InitService /\ [][NextToken]_vars

---------------------------------------------------------------------------
\* The application boundary by itself: whatever an endpoint or a dependency
\* raises is answered through the exception handlers.

ErrorDetails ==
    {"User not found", "Not enough permissions", "Inactive user",
     "Could not validate credentials", "Incorrect username or password",
     "Not Found", "Method Not Allowed"}
Exceptions ==
    {HTTPException(status, detail, www) :
        status \in {400, 401, 403, 404, 405}, detail \in ErrorDetails, www \in BOOLEAN}
        \cup {RequestValidationError(errors) :
                 errors \in SUBSET {<<"body", "email">>, <<"body", "username">>,
                                   <<"body", "password">>} \ {{}}}
        \cup {Raise(e) : e \in {"PyMongoError", "TypeError", "NameError", "ValueError",
                                "InvalidId", "ValidationError",
                                "ResponseValidationError"}}
Raises ==
    \E exc \in Exceptions :
        /\ req' = [NoRequest EXCEPT !.handler = "endpoint", !.arg = <<exc>>, !.at = now]
        /\ resp' = Respond(exc, 200)
        /\ UNCHANGED <<users, nextId, now, calls, minted, decoded, db, lifespan>>
NextBoundary ==
    \/ Raises
    \/ Tick
SpecBoundary == InitService /\ [][NextBoundary]_vars

---------------------------------------------------------------------------
\* The listings called over a database that already holds users, superusers
\* among them, while other calls write to it: nothing keeps a call from
\* running while a listing is suspended between its count and its cursor.

\* An outcome is taken before another call starts or ends (taking it
\* changes nothing in the database).
NextListing ==
    \E p \in Procs :
        \/ Taken(p) /\ GetUsers(p)
        \/ Taken(p) /\ FindUsers(p)
        \/ Taken(p) /\ GetMulti(p)
        \/ Taken(p) /\ ToList(p)
        \/ Taken(p) /\ Create(p)
        \/ Taken(p) /\ FindItem(p)
        \/ Taken(p) /\ Delete(p)
        \/ Return(p)
SpecListing == Init /\ [][NextListing]_vars

---------------------------------------------------------------------------
\* The lifecycle by itself: the application starts (connect_to_mongo),
\* serves, and shuts down (close_mongo_connection), possibly again in the
\* same process.  get_database has no guard of its own and answers at any
\* instant; the application calls it from request handling only
\* (UserService.__init__, UserRepository.get_collection), and the lifespan
\* admits requests only between the return of connect_to_mongo and the
\* shutdown.

\* db.client = AsyncIOMotorClient(...); db.database = db.client[...]
ConnectAssign ==
    /\ lifespan.pc = "down" /\ lifespan.connects < MaxConnects
    /\ db' = connect_assign(lifespan.connects + 1)
    /\ lifespan' = [lifespan EXCEPT !.pc = "ping", !.connects = @ + 1]
    /\ UNCHANGED <<users, nextId, now, req, resp, calls, minted, decoded>>
\* the ping answered: connect_to_mongo returns and the application serves
PingOk ==
    /\ lifespan.pc = "ping"
    /\ lifespan' = [lifespan EXCEPT !.pc = "up"]
    /\ UNCHANGED <<users, nextId, now, req, resp, calls, minted, decoded, db>>
\* the ping raised: the except branch cleans up and re-raises, startup fails
PingFail ==
    /\ lifespan.pc = "ping"
    /\ db' = connect_cleanup(db)
    /\ lifespan' = [lifespan EXCEPT !.pc = "down"]
    /\ UNCHANGED <<users, nextId, now, req, resp, calls, minted, decoded>>
\* shutdown
Close ==
    /\ lifespan.pc = "up"
    /\ db' = close_mongo_connection(db)
    /\ lifespan' = [lifespan EXCEPT !.pc = "down"]
    /\ UNCHANGED <<users, nextId, now, req, resp, calls, minted, decoded>>
\* a call of get_database, with the lifecycle's position when it was made
\* and its caller: a request handler (only while the application serves) or
\* code outside request handling (at any instant)
GetDatabase ==
    /\ \E by \in {"request", "outside"} :
           /\ by = "request" => lifespan.pc = "up"
           /\ lifespan' = [lifespan EXCEPT !.got = Some([pc |-> lifespan.pc,
                                                         by |-> by,
                                                         res |-> get_database(db)])]
    /\ UNCHANGED <<users, nextId, now, req, resp, calls, minted, decoded, db>>

InitLifespan ==
    /\ users = <<>>
    /\ nextId = 1
    /\ now = 0
    /\ req = NoRequest
    /\ resp = NoResponse
    /\ calls = [p \in Procs |-> IdleCall]
    /\ minted = None
    /\ decoded = None
    /\ db = NoDataBase
    /\ lifespan = Lifecycle("down", 0, None)
NextLifespan ==
    \/ ConnectAssign
    \/ PingOk
    \/ PingFail
    \/ Close
    \/ GetDatabase
    \/ Tick
SpecLifespan == InitLifespan /\ [][NextLifespan]_vars

---------------------------------------------------------------------------
\* Properties.

ProtectedHandlers ==
    {"read_users", "read_user_by_id", "read_user_me", "update_user_me",
     "delete_user_me"}
\* a step that answers a request of the handler
RequestStep(handler) ==
    req'.handler = handler /\ <<req, resp, users>>' # <<req, resp, users>>
\* the user a request's token names at the instant of the request
Payload(request) == decode_token(request.token, request.at)
Subject(request, store) ==
    IF Payload(request) = None \/ Payload(request)[1].sub = None THEN None
    ELSE get_by_username(store, Payload(request)[1].sub[1])

\* C1: of two registrations with the same username run one after the other,
\* the first is answered 201 with the created user and the second 400,
\* inserting nothing: a registration whose username is stored is answered
\* 400 and leaves the collection unchanged, and one whose username and email
\* are free is answered 201 with the user it stored.
C1_RegisterThenConflict ==
    [][RequestStep("register") =>
        LET user_in == req'.arg[1]
        IN  IF username_taken(users, user_in)
            THEN resp'.status = 400 /\ users' = users
            ELSE \/ email_taken(users, user_in)
                 \/ /\ resp'.status = 201
                    /\ resp'.body # None
                    /\ resp'.body = get_by_username(users', user_in.username)]_vars

\* C2: after any sequence of create_user, update_user and delete_user calls
\* run one after the other, no two stored users share an email and no two
\* share a username.
C2_UniqueEmailAndUsername ==
    \A i, j \in Indices(users) :
        i # j => /\ users[i].email # users[j].email
                 /\ users[i].username # users[j].username
\* two users are stored, a create_user call was turned down for a conflict
\* and an update_user or delete_user call has run
C2_Witness ==
    /\ Len(users) = 2
    /\ \E p \in Procs : /\ calls[p].op = "create_user" /\ calls[p].pc = "done"
                        /\ calls[p].res.val = None
    /\ \E p \in Procs : calls[p].op \in {"update_user", "delete_user"}

\* C3: when two create_user calls with the same username overlap and both
\* have passed the uniqueness checks before either inserts, both insert:
\* once both have inserted, the collection holds two users with that username.
BothInserted(p, q) ==
    /\ p # q
    /\ calls[p].op = "create_user" /\ calls[p].inserted # None
    /\ calls[q].op = "create_user" /\ calls[q].inserted # None
    /\ calls[p].arg[1].username = calls[q].arg[1].username
C3_OverlappingCreatesBothInsert ==
    \A p, q \in Procs :
        BothInserted(p, q) =>
            Cardinality(Matching(users, "username", calls[p].arg[1].username)) >= 2
\* both calls returned a created user and the username is stored twice
C3_Witness ==
    \E p, q \in Procs :
        /\ BothInserted(p, q)
        /\ calls[p].pc = "done" /\ calls[p].res.val # None
        /\ calls[q].pc = "done" /\ calls[q].res.val # None
        /\ calls[p].res.val[1].id # calls[q].res.val[1].id
        /\ Cardinality(Matching(users, "username", calls[p].arg[1].username)) = 2

\* C4: a token minted for username u with lifetime ttl decodes to claims
\* with sub = u at every instant before now + ttl and to None at every
\* instant after it.
C4_AcceptedExactlyUntilExpiry ==
    (decoded # None /\ minted # None /\ minted[1].ttl # None) =>
        LET expiry == minted[1].at + minted[1].ttl[1]
            claims == decoded[1].claims
        IN  /\ decoded[1].at < expiry =>
                claims # None /\ claims[1].sub = Some(minted[1].sub)
            /\ decoded[1].at > expiry => claims = None

\* C5: a login whose username matches no stored user and a login whose
\* password does not verify against the stored hash are answered alike, with
\* 401 and the detail "Incorrect username or password".
LoginFails(request, store) ==
    LET user == find_one(store, "username", request.arg[1])
    IN  user = None \/ ~verify_password(request.arg[2], user[1].hashed_password)
C5_SameFailureSignal ==
    (req.handler = "login_access_token" /\ LoginFails(req, users)) =>
        /\ resp.status = 401
        /\ resp.detail = "Incorrect username or password"

\* C6: update_user on a stored id with a partial that supplies no field
\* returns the stored record and leaves the collection unchanged.
C6_EmptyUpdateReturnsRecord ==
    [][\A p \in Procs :
        (/\ calls[p].pc = "idle" /\ calls'[p].op = "update_user"
         /\ calls'[p].arg[2] = EmptyUpdate
         /\ get_user(users, calls'[p].arg[1]) # None) =>
            /\ calls'[p].res = Ok(get_user(users, calls'[p].arg[1]))
            /\ users' = users]_vars

\* C7: the list-users request of an authenticated, enabled requester without
\* the superuser flag is answered, for every skip and limit, with exactly the
\* requester's own record and total 1.
C7_NonSuperuserListsOnlySelf ==
    LET user == Subject(req, users)
    IN  (/\ req.handler = "read_users" /\ user # None
         /\ ~user[1].disabled /\ ~user[1].is_superuser) =>
            /\ resp.status = 200
            /\ resp.body # None
            /\ resp.body[1].items = user
            /\ resp.body[1].total = 1

\* C8: DELETE /users/me with the token of a stored, enabled user is answered
\* 204 and removes the record, and every request whose token names a username
\* that is not stored is answered 401.
C8_DeleteThenUnauthenticated ==
    [][\A h \in ProtectedHandlers : RequestStep(h) =>
        LET user == Subject(req', users)
        IN  /\ (h = "delete_user_me" /\ user # None /\ ~user[1].disabled) =>
                    /\ resp'.status = 204
                    /\ get_by_username(users', user[1].username) = None
            /\ (Payload(req') # None /\ Payload(req')[1].sub # None /\ user = None) =>
                    resp'.status = 401]_vars

\* C9: a protected request is rejected at the first unmet condition, in the
\* order token present, token decodes, subject names a stored user (each 401),
\* user enabled (inactive, not 401); only then does the handler run, with the
\* loaded user (read_user_me answers 200 with it).
C9_FailClosedInOrder ==
    req.handler \in ProtectedHandlers =>
        LET user == Subject(req, users)
        IN  IF req.token.kind = "none" THEN resp.status = 401
            ELSE IF Payload(req) = None THEN resp.status = 401
            ELSE IF user = None THEN resp.status = 401
            ELSE IF user[1].disabled
            THEN resp.status # 401 /\ resp.detail = "Inactive user"
            ELSE /\ resp.status # 401 /\ resp.detail # "Inactive user"
                 /\ req.handler = "read_user_me" =>
                        resp.status = 200 /\ resp.body = user

\* C10: a protected request whose token has a bad signature, is expired, is
\* malformed, has no sub claim or names no stored user is answered with one
\* and the same response: 401, "Could not validate credentials".
C10_SameRejection ==
    (/\ req.handler \in ProtectedHandlers /\ req.token.kind # "none"
     /\ Subject(req, users) = None) =>
        resp = Respond(credentials_exception, 200)

\* C11: no user record an endpoint returns carries the password hash or the
\* plaintext password: neither the body of a response nor the user records
\* the service hands to the endpoints (created users, listed users) have a
\* field password or hashed_password.
SecretFields == {"password", "hashed_password"}
CarriesSecret(body) ==
    IF "items" \in DOMAIN body
    THEN \E i \in 1..Len(body.items) : DOMAIN body.items[i] \cap SecretFields # {}
    ELSE DOMAIN body \cap SecretFields # {}
C11_NoPasswordInUserBodies ==
    /\ resp.body # None => ~CarriesSecret(resp.body[1])
    /\ \A p \in Procs :
        (/\ calls[p].op \in {"create_user", "get_users", "get_multi", "get", "create", "update"}
         /\ calls[p].res.val # None) =>
            ~CarriesSecret(calls[p].res.val[1])
\* a listing returned a user whose stored document holds the hash of the
\* password and, written by the inherited update, a password in plaintext
C11_Witness ==
    \E p \in Procs, i \in Indices(users) :
        /\ {"hashed_password", "password"} \subseteq DOMAIN users[i]
        /\ verify_password("longenough1", users[i].hashed_password)
        /\ users[i].password = "longenough2"
        /\ calls[p].op = "get_users" /\ calls[p].pc = "done"
        /\ \E k \in 1..Len(calls[p].res.val[1].items) :
               calls[p].res.val[1].items[k].id = ObjectIdStr(users[i]._id)

\* C12: a GET on /users/me with the valid token of a stored, enabled user
\* is dispatched to read_user_me and answered 200 with the requester's own
\* record; the route /{user_id} never captures the path /me.
IsGetMe(request) ==
    /\ request.method = "GET"
    /\ request.path \in {Documented("users", <<Me>>), Mounted("users", <<Me>>)}
C12_MeReachesCurrentUserHandler ==
    LET user == Subject(req, users)
    IN  IsGetMe(req) =>
            /\ req.handler # "read_user_by_id"
            /\ (user # None /\ ~user[1].disabled) =>
                    /\ req.handler = "read_user_me"
                    /\ resp.status = 200
                    /\ resp.body = user

\* C13: PUT /users/me that supplies a password, with the token of a stored,
\* enabled user, is answered 200; afterwards the user's stored
\* hashed_password verifies the new password and no longer the old one, and
\* the stored record has no plaintext password field.
C13_PasswordUpdateRehashes ==
    [][RequestStep("update_user_me") =>
        LET user == Subject(req', users)
            user_in == req'.arg[1]
        IN  (user # None /\ ~user[1].disabled /\ user_in.password # None) =>
                LET stored == find_one(users', "_id", ObjectId(user[1].id))
                    before == find_one(users, "_id", ObjectId(user[1].id))
                IN  /\ resp'.status = 200
                    /\ stored # None
                    /\ verify_password(user_in.password[1], stored[1].hashed_password)
                    /\ user_in.password[1] # before[1].hashed_password.pw =>
                           ~verify_password(before[1].hashed_password.pw,
                                            stored[1].hashed_password)
                    /\ "password" \notin DOMAIN stored[1]]_vars

\* C14: a login with the username and current password of a stored user is
\* answered 200 with a token of type bearer whose sub claim is that
\* username, and the auth chain, given that token while the user is stored
\* and enabled, returns that user's record.
C14_LoginTokenNamesUser ==
    (req.handler = "login_access_token" /\ ~LoginFails(req, users)) =>
        /\ resp.status = 200
        /\ resp.body # None
        /\ resp.body[1].token_type = "bearer"
        /\ resp.body[1].access_token.sub = Some(req.arg[1])
        /\ LET user == get_by_username(users, req.arg[1])
           IN  ~user[1].disabled =>
                   Depends_active_user(users, resp.body[1].access_token, now) = Ok(user)

\* C15: update_user raises not_found (404) when the id names no stored
\* user; raises a conflict when the supplied email or username differs from
\* the user's own and another stored user holds it; raises no conflict when
\* the supplied value is the user's own; and whenever it raises, the
\* collection is left unchanged.
IsConflict(outcome) ==
    /\ outcome.exc = "HTTPException"
    /\ outcome.detail \in {"Email already registered", "Username already taken"}
HeldByOther(store, field, value, id) ==
    \E i \in Matching(store, field, value) : store[i]._id # id
C15_UpdateUserErrors ==
    [][\A p \in Procs :
        (calls[p].pc = "idle" /\ calls'[p].op = "update_user") =>
            LET user_id == calls'[p].arg[1]
                user_update == calls'[p].arg[2]
                existing == IF ObjectId_is_valid(user_id)
                            THEN find_one(users, "_id", ObjectId(user_id)) ELSE None
                res == calls'[p].res
                collides(field) ==
                    /\ user_update[field] # None
                    /\ user_update[field][1] # existing[1][field]
                    /\ HeldByOther(users, field, user_update[field][1], existing[1]._id)
            IN  /\ existing = None => res = NotFound
                /\ (existing # None /\ (collides("email") \/ collides("username")))
                       => IsConflict(res)
                /\ (existing # None /\ ~collides("email") /\ ~collides("username"))
                       => ~IsConflict(res)
                /\ IsRaise(res) => users' = users]_vars

\* C16: GET /users/{id} by an authenticated, enabled requester is answered
\* 404 when the id is malformed or names no stored user, 403 when it names
\* a stored user other than the requester and the requester is no superuser,
\* and otherwise 200 with that user's record; a requester who is no
\* superuser never receives another user's record.
C16_ReadByIdOwnerOrSuperuser ==
    LET user == Subject(req, users)
        target == get_user(users, req.arg[1])
    IN  /\ (req.handler = "read_user_by_id" /\ user # None /\ ~user[1].disabled) =>
               IF target = None THEN resp.status = 404
               ELSE IF target # user /\ ~user[1].is_superuser THEN resp.status = 403
               ELSE resp.status = 200 /\ resp.body = target
        /\ (req.handler = "read_user_by_id" /\ resp.body # None) =>
               user # None /\ (resp.body = user \/ user[1].is_superuser)

\* C17: delete_user on the id of a stored user removes exactly that record,
\* returns true and leaves the other records unchanged, and the record is
\* not readable afterwards; on an id that names no stored user it raises
\* not_found (404) and changes nothing.
C17_DeleteRemovesExactlyOne ==
    [][\A p \in Procs :
        (calls[p].pc = "idle" /\ calls'[p].op = "delete_user") =>
            LET user_id == calls'[p].arg[1]
                res == calls'[p].res
            IN  IF get_user(users, user_id) # None
                THEN /\ res = Ok(Some(TRUE))
                     /\ users' = delete_one(users, ObjectId(user_id))
                     /\ Len(users') = Len(users) - 1
                     /\ get_user(users', user_id) = None
                ELSE res = NotFound /\ users' = users]_vars

\* C18: for every page >= 1, page_size in 1..100 and filter, get_multi
\* returns, without error, total = the number of matching records,
\* total_pages = ceil(total / page_size) and the items from position
\* skip = (page - 1) * page_size on, min(page_size, max(0, total - skip)) of
\* them: none when skip is at or past total.
Ceil(a, b) == IF a % b = 0 THEN a \div b ELSE (a \div b) + 1
C18_PaginatedList ==
    [][\A p \in Procs :
        (calls[p].op = "get_multi" /\ calls[p].pc = "to_list" /\ calls'[p].pc = "done") =>
            LET page == calls'[p].arg[1]
                page_size == calls'[p].arg[2]
                matching == Filter(users, calls'[p].arg[3])
                skip == (page - 1) * page_size
                total == Len(matching)
                res == calls'[p].res
            IN  /\ ~IsRaise(res)
                /\ res.val[1].total = total
                /\ res.val[1].total_pages = Ceil(total, page_size)
                /\ Len(res.val[1].items) = Min(page_size, Max(0, total - skip))
                /\ \A i \in 1..Len(res.val[1].items) :
                       res.val[1].items[i].id = ObjectIdStr(matching[skip + i]._id)]_vars

\* C19: update_user on the id of a stored user, with a partial that collides
\* with no other user, succeeds and changes exactly the fields the partial
\* supplies (the password as its hash): every other field of that user, its
\* identifier and every other stored user are unchanged.
C19_UpdateChangesOnlySuppliedFields ==
    [][\A p \in Procs :
        (calls[p].pc = "idle" /\ calls'[p].op = "update_user") =>
            LET user_id == calls'[p].arg[1]
                user_update == calls'[p].arg[2]
                supplied == fields_set(user_update)
                free(field) ==
                    \/ user_update[field] = None
                    \/ ~HeldByOther(users, field, user_update[field][1], ObjectId(user_id))
                new(field) == IF field = "full_name" THEN user_update.full_name
                              ELSE user_update[field][1]
            IN  (get_user(users, user_id) # None /\ free("email") /\ free("username")) =>
                    /\ ~IsRaise(calls'[p].res)
                    /\ Len(users') = Len(users)
                    /\ \A i \in Indices(users) :
                        IF users[i]._id # ObjectId(user_id) THEN users'[i] = users[i]
                        ELSE \A f \in DOMAIN users[i] :
                                IF f \in supplied THEN users'[i][f] = new(f)
                                ELSE IF f = "hashed_password" /\ "password" \in supplied
                                THEN verify_password(user_update.password[1],
                                                     users'[i].hashed_password)
                                ELSE users'[i][f] = users[i][f]]_vars

\* C20: whatever a request raises, the response is a JSON body of the shape
\* {detail, code, errors?}: an HTTP error keeps its status and detail, a
\* request-validation error is answered 422 with the offending fields, a
\* database error and any other exception 500 with a fixed generic detail
\* that is not the exception's message.
ErrorShape(response) ==
    /\ response.detail # "" /\ response.code # "" /\ response.body = None
GenericDetails == {"Database operation failed", "Internal server error"}
C20_ErrorsNormalized ==
    /\ resp.status >= 400 =>
           /\ ErrorShape(resp)
           /\ resp.status = 500 => resp.detail \in GenericDetails
           /\ resp.status = 422 <=> resp.errors # None
    /\ (req.handler = "endpoint") =>
        LET exc == req.arg[1]
        IN  /\ resp.status >= 400
            /\ exc.exc = "HTTPException" =>
                   /\ resp.status = exc.status /\ resp.detail = exc.detail
                   /\ resp.errors = None
            /\ exc.exc = "RequestValidationError" =>
                   /\ resp.status = 422
                   /\ resp.errors # None /\ resp.errors[1].details = exc.val[1]
            /\ exc.exc \notin {"HTTPException", "RequestValidationError"} =>
                   /\ resp.status = 500
                   /\ resp.detail \in GenericDetails
                   /\ resp.detail # str(exc)
                   /\ resp.errors = None
            /\ exc.exc = "PyMongoError" <=> resp.code = "database_error"
\* an exception that is neither an HTTP, a validation nor a database error
\* was answered 500
C20_Witness ==
    /\ req.handler = "endpoint"
    /\ req.arg[1].exc = "NameError"
    /\ resp.status = 500 /\ resp.code = "internal_server_error"

\* C21 as stated: the database handle is assigned only by connect_to_mongo
\* and cleared only by close_mongo_connection or a failed connect; between a
\* successful startup and shutdown it is not reassigned; and get_database
\* raises, instead of returning a handle, at every instant before a
\* successful connect or after close.
C21_HandleLifecycle ==
    /\ lifespan.pc = "up" => db = Connected(lifespan.connects)
    /\ lifespan.pc = "down" => db = NoDataBase
    /\ lifespan.pc # "up" <=> get_database(db) = Raise("RuntimeError")
    /\ lifespan.got # None =>
           (lifespan.got[1].pc # "up" <=> lifespan.got[1].res = Raise("RuntimeError"))
\* C21, amended: the handle is assigned by connect_to_mongo before it awaits
\* the ping and cleared by close_mongo_connection or a failed connect; from
\* the assignment to the clearing it is the handle of that connect;
\* every call of get_database raises exactly when it is made while the
\* handle is cleared (before connect_to_mongo is called, after a failed
\* connect, after close) and returns the handle when made while the ping is
\* awaited; every call a request handler makes falls between startup and
\* shutdown and returns the handle startup created.
C21_HandleLifecycleOfRequests ==
    /\ lifespan.pc \in {"ping", "up"} => db = Connected(lifespan.connects)
    /\ lifespan.pc = "down" => db = NoDataBase
    /\ lifespan.pc = "down" <=> get_database(db) = Raise("RuntimeError")
    /\ lifespan.got # None =>
           /\ lifespan.got[1].pc = "down" <=> lifespan.got[1].res = Raise("RuntimeError")
           /\ lifespan.got[1].pc # "down" =>
                  \E k \in 1..lifespan.connects : lifespan.got[1].res = Ok(Some(k))
           /\ lifespan.got[1].by = "request" => lifespan.got[1].pc = "up"
\* the application has started and shut down once; a second connect assigned
\* its handle, get_database called while it awaited the ping returned that
\* handle, and the ping failed: the handle is cleared again
C21_Witness ==
    /\ lifespan.pc = "down" /\ lifespan.connects = 2
    /\ db = NoDataBase
    /\ lifespan.got # None
    /\ lifespan.got[1].pc = "ping" /\ lifespan.got[1].res = Ok(Some(2))

\* C22: every minted token carries an expiry: exp = now + ttl for every ttl
\* supplied, a zero ttl included, exp = now + 15 minutes when none is
\* supplied, and the token the login flow mints for a user expires 7 days
\* after it was minted.
SevenDays == 7 * 24 * 60 * 60
FifteenMinutes == 15 * 60
C22_ExpiryFromTtl ==
    /\ minted # None =>
           /\ minted[1].token.exp # None
           /\ minted[1].token.exp[1] =
                  minted[1].at + (IF minted[1].ttl = None THEN FifteenMinutes
                                  ELSE minted[1].ttl[1])
    /\ \A u \in Usernames :
           create_access_token_for_user([username |-> u], now).exp = Some(now + SevenDays)

\* C23: every update_user call, also one that overlaps with other calls
\* (a delete of the same id among them), ends in exactly one of: the updated
\* user, not_found, or a conflict; it never returns an absent result.
C23_UpdateEndsInUserNotFoundOrConflict ==
    \A p \in Procs :
        (calls[p].op = "update_user" /\ calls[p].pc = "done") =>
            LET res == calls[p].res
            IN  \/ ~IsRaise(res) /\ res.val # None
                \/ res = NotFound
                \/ IsConflict(res)

\* C24: every endpoint is mounted with the version prefix and its router's
\* prefix applied once: a request to /api/v1/auth/register,
\* /api/v1/auth/login/access-token, /api/v1/users/, /api/v1/users/me or
\* /api/v1/users/{id} reaches a route, and no route is mounted at a path
\* that applies a prefix twice.
IsDocumented(request) ==
    \/ \E tail \in PathTails : request.path = Documented("auth", tail)
    \/ \E seg \in RequestIds \cup {Me, Lit("")} :
           request.path = Documented("users", <<seg>>)
IsDoubled(request) ==
    \/ \E tail \in PathTails : request.path = Mounted("auth", tail)
    \/ \E seg \in RequestIds \cup {Me, Lit("")} :
           request.path = Mounted("users", <<seg>>)
C24_PrefixesAppliedOnce ==
    /\ (IsDocumented(req) /\ req.method = "POST" /\ req.path[3] = Lit("auth")) =>
           req.handler \in {"register", "login_access_token"}
    /\ (IsDocumented(req) /\ req.method = "GET" /\ req.path[3] = Lit("users")) =>
           req.handler \in {"read_users", "read_user_me", "read_user_by_id"}
    /\ (IsDocumented(req) /\ req.method \in {"PUT", "DELETE"}
           /\ req.path = Documented("users", <<Me>>)) =>
           req.handler \in {"update_user_me", "delete_user_me"}
    /\ IsDoubled(req) => req.handler = "not_found"

\* The step in which get_users, called by a superuser, reads its cursor and
\* returns, and what is claimed of the page it returns.
ListedForSuperuser(p) ==
    /\ calls[p].op = "get_users" /\ calls[p].pc = "find" /\ calls'[p].pc = "done"
    /\ calls[p].arg[3] # None /\ calls[p].arg[3][1].is_superuser
SliceAndTotals(p) ==
    LET skip == calls[p].arg[1]
        limit == calls[p].arg[2]
        total == Len(users)
        page == calls'[p].res.val[1]
        n == Min(limit, Max(0, total - skip))
    IN  /\ Len(page.items) = n
        /\ \A i \in 1..n :
               page.items[i] = UserResponse(users[skip + i],
                                            ObjectIdStr(users[skip + i]._id))
        /\ page.total = total
        /\ page.page = (skip \div limit) + 1
        /\ page.total_pages = Ceil(total, limit)
        /\ Len(page.items) > 0 => page.page <= page.total_pages
\* C25: for a superuser requester, every skip >= 0 and limit in 1..100,
\* get_users returns the stored users at positions skip..skip+limit-1,
\* total = the number of stored users, page = skip div limit + 1 and
\* total_pages = ceil(total / limit); when items are returned,
\* page <= total_pages.
C25_SuperuserListing ==
    [][\A p \in Procs : ListedForSuperuser(p) => SliceAndTotals(p)]_vars
\* C25, amended: the same, for a call during which the number of stored
\* users is the same when the cursor is read as when the users were counted.
C25_SuperuserListingOfSteadyCount ==
    [][\A p \in Procs :
        (ListedForSuperuser(p) /\ calls[p].total = Some(Len(users))) =>
            SliceAndTotals(p)]_vars
\* a superuser asked for the listing from position 1 on, while another call
\* was in flight, and got the second of the two users counted
C25_Witness ==
    \E p \in Procs, q \in Procs :
        /\ calls[p].op = "get_users" /\ calls[p].pc = "done"
        /\ calls[p].arg[3] # None /\ calls[p].arg[3][1].is_superuser
        /\ calls[p].arg[1] = 1
        /\ calls[p].total = Some(2) /\ Len(users) = 2
        /\ Len(calls[p].res.val[1].items) = 1
        /\ calls[p].res.val[1].items[1].id = ObjectIdStr(users[2]._id)
        /\ q # p /\ InFlight(q)

\* C26: the auth chain resolves a token by its username subject only: a
\* protected request with an unexpired token is authenticated as whichever
\* record is stored under the token's subject at the instant of the request,
\* whatever identifier the record had that the token was minted for.
C26_TokenResolvedByUsername ==
    (req.handler \in ProtectedHandlers /\ Subject(req, users) # None) =>
        /\ get_current_user(users, req.token, req.at) = Ok(Subject(req, users))
        /\ resp.status \notin {401, 500}

\* C27: no operation changes a stored user's is_superuser or disabled flag,
\* and a created user stores neither; a user whose role is admin and who is
\* no superuser is listed only their own record and is refused every other
\* user's record.
SameFlags(before, after) ==
    /\ Field(before, "disabled", None) = Field(after, "disabled", None)
    /\ Field(before, "is_superuser", None) = Field(after, "is_superuser", None)
C27_FlagsFixedRoleGrantsNothing ==
    [][/\ \A i \in Indices(users), j \in Indices(users') :
              users[i]._id = users'[j]._id => SameFlags(users[i], users'[j])
       /\ \A p \in Procs :
              (/\ calls[p].op = "create_user"
               /\ calls[p].pc = "insert_one" /\ calls'[p].pc = "find_one") =>
                  LET created == find_one(users', "_id", calls'[p].inserted[1])[1]
                  IN  /\ Field(created, "disabled", None) = None
                      /\ Field(created, "is_superuser", None) = None
       /\ \A p \in Procs :
              (/\ calls[p].pc = "idle" /\ calls'[p].op = "get_users"
               /\ calls'[p].arg[3] # None /\ ~calls'[p].arg[3][1].is_superuser) =>
                  LET items == calls'[p].res.val[1].items
                  IN  /\ calls'[p].pc = "done"
                      /\ \A k \in 1..Len(items) : items[k].id = calls'[p].arg[3][1].id
       /\ \A i \in Indices(users), j \in Indices(users) :
              LET current_user == convert_to_response(Some(users[i]))[1]
              IN  (i # j /\ ~current_user.is_superuser) =>
                      IsRaise(read_user_by_id(users, ObjectIdStr(users[j]._id),
                                              current_user))]_vars
\* a user registered with role admin is stored with no flag next to another
\* user, asked for the listing and was returned their own record alone
C27_Witness ==
    \E p \in Procs, i \in Indices(users) :
        /\ Len(users) = 2
        /\ users[i].role = "admin" /\ Field(users[i], "is_superuser", None) = None
        /\ "hashed_password" \in DOMAIN users[i]
        /\ calls[p].op = "get_users" /\ calls[p].pc = "done"
        /\ calls[p].arg[3] = convert_to_response(Some(users[i]))
        /\ calls[p].res.val[1].items = <<calls[p].arg[3][1]>>

\* C28: login does not look at the disabled flag: a disabled user who logs in
\* with the stored password is answered 200 with a token, and every protected
\* request with a token of a disabled user is rejected as inactive before the
\* handler runs, returning no record and changing nothing.
C28_DisabledLogsInButIsRejected ==
    /\ (/\ req.handler = "login_access_token" /\ ~LoginFails(req, users)
        /\ get_by_username(users, req.arg[1])[1].disabled) =>
           /\ resp.status = 200
           /\ resp.body # None /\ resp.body[1].access_token.sub = Some(req.arg[1])
    /\ (/\ req.handler \in ProtectedHandlers /\ Subject(req, users) # None
        /\ Subject(req, users)[1].disabled) =>
           /\ resp.status = 400 /\ resp.detail = "Inactive user"
           /\ resp.body = None

\* C29: to a requester who is enabled and no superuser, GET /users/{id} with
\* a well-formed id other than their own is answered 403 when the id names a
\* stored user and 404 when it names none: the two cases are told apart.
C29_ExistenceShowsThroughStatus ==
    LET user == Subject(req, users)
    IN  (/\ req.handler = "read_user_by_id" /\ user # None
         /\ ~user[1].disabled /\ ~user[1].is_superuser
         /\ ObjectId_is_valid(req.arg[1]) /\ req.arg[1] # user[1].id) =>
            resp.status = (IF get_user(users, req.arg[1]) # None THEN 403 ELSE 404)

\* C30: when an update_user call that sets a new username on a stored user
\* runs while a create_user call with the same username has passed its
\* uniqueness checks and has not inserted yet, the update passes its own
\* check and writes the username, so that the insert then leaves two stored
\* users with that username.
C30_OverlappingUpdateWrites ==
    [][\A p, q \in Procs :
        (/\ calls[p].pc = "idle" /\ calls'[p].op = "update_user"
         /\ get_user(users, calls'[p].arg[1]) # None
         /\ calls'[p].arg[2].username # None
         /\ ~HeldByOther(users, "username", calls'[p].arg[2].username[1],
                         ObjectId(calls'[p].arg[1]))
         /\ calls[q].op = "create_user" /\ calls[q].pc = "insert_one"
         /\ calls[q].arg[1].username = calls'[p].arg[2].username[1]) =>
            /\ ~IsRaise(calls'[p].res)
            /\ get_user(users', calls'[p].arg[1])[1].username =
                   calls'[p].arg[2].username[1]]_vars

====
